---- MODULE Spec2Model ----
(***************************************************************************)
(* node-tvdb: the request pipeline of the TheTVDB client.                   *)
(*                                                                         *)
(* One client (class TheTVDB, src/lib/index.ts) and a bounded number of    *)
(* sendRequest invocations running against one server.  The state is the   *)
(* client's memoized tokenPromise, each invocation's position in its       *)
(* promise chain, and a record of what was put on the wire.                *)
(*                                                                         *)
(* login, checkHttpError, checkJsonError, getNextPages and the config      *)
(* constants are imported by index.ts from modules that are not part of    *)
(* the sources at hand; they are modelled from the design document.        *)
(***************************************************************************)
EXTENDS Integers, Sequences, FiniteSets, TLC

(***************************************************************************)
(* Bounds of the model.                                                    *)
(***************************************************************************)
NumCalls == 2
MaxPage == 3

Calls == 1..NumCalls
Pages == 1..MaxPage

(***************************************************************************)
(* Values.  Header values are pairs so that a computed value and a         *)
(* caller-supplied one can be compared: <<"Bearer", token>> stands for the *)
(* template string `Bearer ${token}`.                                      *)
(***************************************************************************)
Tokens == {"tokA", "tokB"}
NoToken == "none"
Undefined == "undefined"

AV_HEADER == <<"fixed", "application/vnd.thetvdb">>
Bearer(token) == <<"Bearer", token>>
Lang(tag) == <<"lang", tag>>
CallerValue(k) == <<"caller", k>>

\* Values of query parameters: a string or a number, with its printed form.
Str(x) == <<"string", x>>
Num(x) == <<"number", x>>
Null == <<"null", "null">>
\* String(v)
String(v) == Str(v[2])

EmptyObject == [k \in {} |-> <<"", "">>]

\* { ...a, ...b }: the keys of both, b's value where both have the key.
Spread(a, b) ==
  [k \in (DOMAIN a) \cup (DOMAIN b) |-> IF k \in DOMAIN b THEN b[k] ELSE a[k]]

\* obj[key] = value
Assign(obj, key, value) ==
  [k \in (DOMAIN obj) \cup {key} |-> IF k = key THEN value ELSE obj[k]]

(***************************************************************************)
(* RequestOptions as a caller can pass them: query.page (0 = no page       *)
(* parameter), the other parameters of query, extra headers, lang and      *)
(* language.                                                               *)
(***************************************************************************)
CallerHeaderNames == {"Accept", "Accept-language", "Authorization"}
CallerHeaders == {[k \in S |-> CallerValue(k)] : S \in SUBSET CallerHeaderNames}
LangValues == {Undefined, "de"}
LanguageValues == {Undefined, "fr"}
StartPages == {0, 2}

Paths == {"series/1/episodes", "search/series"}

\* The arguments of one sendRequest(path, opts) invocation.
AllOptions ==
  [path : Paths, page : StartPages, headers : CallerHeaders,
   lang : LangValues, language : LanguageValues, query : {EmptyObject}]

\* The options the concurrent specification draws from.
CallOptions ==
  {o \in AllOptions : /\ o.path = "series/1/episodes"
                      /\ o.lang = Undefined /\ o.language = Undefined
                      /\ o.headers = EmptyObject}

ClientLanguage == "en"

\* constructor(public apiKey, public language = 'en'): the default parameter
\* stands in for an argument that is undefined.
DefaultLanguage(language) == IF language = Undefined THEN ClientLanguage ELSE language

\* The file holds the class twice: with typed options and with untyped ones.
Versions == {"typed", "untyped"}
\* What the constructor can be given as apiKey: nothing, '' or a key.
ApiKeys == {Undefined, "", "key"}
NoClient == [version |-> "none", language |-> Undefined]
Clients == [version : Versions, language : {DefaultLanguage(l) : l \in {Undefined, "ja"}}]

\* Options that differ in what names a language: lang, language (each absent,
\* empty or a tag) and a header of the caller's.
LanguageOptions ==
  [path : {"series/1/episodes"}, page : {0},
   headers : {[k \in S |-> CallerValue(k)] : S \in SUBSET {"Accept-language"}},
   lang : {Undefined, "", "de"}, language : {Undefined, "", "fr"}, query : {EmptyObject}]
(***************************************************************************)
(* The server.  A collection of server.last pages; page p holds two items. *)
(* shape "object" is an endpoint whose data is a single object.            *)
(* reportsLast says whether the envelope's links carry `last`.             *)
(***************************************************************************)
Servers == [last : Pages, shape : {"array", "object"}, reportsLast : BOOLEAN]

NullData == [isArray |-> FALSE, items |-> <<>>]
PageData(s, p) ==
  IF s.shape = "array" THEN [isArray |-> TRUE, items |-> <<2 * p - 1, 2 * p>>]
  ELSE [isArray |-> FALSE, items |-> <<p>>]

NoLinks == [next |-> 0, last |-> 0]
PageLinks(s, p) ==
  [next |-> IF p < s.last THEN p + 1 ELSE 0,
   last |-> IF s.reportsLast THEN s.last ELSE 0]

\* A request without a page parameter is answered with page 1.
PageOf(q) == IF q = 0 THEN 1 ELSE q

Malformed == [json |-> FALSE, Error |-> "", data |-> NullData, links |-> NoLinks]
PageBody(s, p) ==
  [json |-> TRUE, Error |-> "", data |-> PageData(s, p), links |-> PageLinks(s, p)]

\* A body carrying the API's Error field: {"data":null,"Error":"ID not found"} for a
\* page that does not exist, and the page's envelope with Error added for one that does.
ErrorBody(s, q) ==
  IF PageOf(q) <= s.last THEN [PageBody(s, PageOf(q)) EXCEPT !.Error = "ID not found"]
  ELSE [json |-> TRUE, Error |-> "ID not found", data |-> NullData, links |-> NoLinks]

Bodies(s, q) ==
  {Malformed, ErrorBody(s, q)}
    \cup (IF PageOf(q) <= s.last THEN {PageBody(s, PageOf(q))} ELSE {})

Statuses == {200, 401}

\* The endpoint series/{id}: one object, whatever the query.
SeriesPath == "series/1"
SeriesServer == [last |-> 1, shape |-> "object", reportsLast |-> FALSE]

NetworkFailure == [net |-> TRUE, status |-> 0, body |-> Malformed]
NoResponse == [net |-> FALSE, status |-> 0, body |-> Malformed]
Responses(s, q) ==
  {NetworkFailure} \cup {[net |-> FALSE, status |-> st, body |-> b] : st \in Statuses, b \in Bodies(s, q)}

(***************************************************************************)
(* Outcomes of an invocation.                                              *)
(***************************************************************************)
NoOutcome == [kind |-> "none", error |-> "", status |-> 0, message |-> "", data |-> NullData]
Value(d) == [kind |-> "value", error |-> "", status |-> 0, message |-> "", data |-> d]
Failure(type, status, message) ==
  [kind |-> "error", error |-> type, status |-> status, message |-> message, data |-> NullData]

AuthError == Failure("AuthError", 0, "")
TransportError == Failure("TransportError", 0, "")
HttpError(status) == Failure("HttpError", status, "")
ParseError == Failure("ParseError", 0, "")
ApiError(message) == Failure("ApiError", 0, message)
(***************************************************************************)
(* State.                                                                  *)
(***************************************************************************)
VARIABLES
  client,        \* the TheTVDB object: which class it is of, and this.language
  server,        \* the server the client talks to
  tokenPromise,  \* TheTVDB.tokenPromise: [st, tok]
  loginCalls,    \* how many times login(apiKey) has been called
  pc,            \* per invocation: "idle", "awaitToken", "fetching", "done", "failed"
  args,          \* per invocation: the path and options it was called with
  page,          \* per invocation: the query's page of the request pending or in flight
  todo,          \* per invocation: the page numbers still to fetch after that one
  acc,           \* per invocation: the data merged so far
  sent,          \* per invocation: the requests handed to fetch, in order
  parses,        \* per invocation: how many response bodies were parsed
  lastRes,       \* per invocation: the response handled last
  outcome,       \* per invocation: what the returned promise settled with
  settled,       \* per invocation: how many times the returned promise was settled
  all,           \* the promise getSeriesAllById returned
  called,        \* per invocation: the method the caller called and its arguments
  construction,  \* new TheTVDB(apiKey, language): whether it returned or threw, this.apiKey
  credentials    \* the arguments login was called with, in order

vars ==
  <<client, server, tokenPromise, loginCalls, pc, args, page, todo, acc, sent, parses,
    lastRes, outcome, settled, all, called, construction, credentials>>

Unset == [st |-> "unset", tok |-> NoToken]
Pending == [st |-> "pending", tok |-> NoToken]
Resolved(token) == [st |-> "resolved", tok |-> token]
Rejected == [st |-> "rejected", tok |-> NoToken]

\* A client that keeps the options of a request on itself: every invocation reads
\* those of the invocation made last.
OptionsOfLatest(c) ==
  args[CHOOSE d \in Calls : pc[d] # "idle" /\ \A e \in Calls : pc[e] # "idle" => e <= d]

\* const options = { ...DEFAULT_OPTS, ...opts }: a local of the invocation, which
\* the callbacks of its chain close over.
OptionsOf(c) == args[c]

(***************************************************************************)
(* TheTVDB.getToken.  The body runs synchronously up to its return, so the *)
(* test and the assignment are one step.                                   *)
(***************************************************************************)
\* A client that caches the token instead of the promise: a login is started
\* whenever no token has arrived yet.
needLoginUntilResolved(tp) == tp.st # "resolved"

\* A client that does not memoize: every getToken() logs in again.
needLoginAlways(tp) == TRUE

\* A client that forgets a failed login: getToken() logs in again after a rejection.
needLoginAfterRejection(tp) == tp.st \in {"unset", "rejected"}

\* if (!this.tokenPromise)
needLogin(tp) == tp.st = "unset"

\* getToken(): the promise it leaves in this.tokenPromise and returns, and
\* whether it called login(this.apiKey).
getToken(tp) ==
  IF needLogin(tp) THEN [promise |-> Pending, login |-> TRUE]
  ELSE [promise |-> tp, login |-> FALSE]

(***************************************************************************)
(* TheTVDB.sendRequest: options, headers and the request.                  *)
(***************************************************************************)
\* options.lang ?? options.language ?? this.language
AcceptLanguage(o, language) ==
  IF o.lang # Undefined THEN o.lang
  ELSE IF o.language # Undefined THEN o.language
  ELSE language

\* const headers = { Accept, 'Accept-language', ...options.headers }
RequestHeaders(o, language) ==
  Spread([k \in {"Accept", "Accept-language"} |->
            IF k = "Accept" THEN AV_HEADER ELSE Lang(AcceptLanguage(o, language))],
         o.headers)

\* a || b of JavaScript: b unless a is truthy.
Truthy(v) == v \notin {Undefined, ""}

\* options.lang || this.language
AcceptLanguageUntyped(o, language) == IF Truthy(o.lang) THEN o.lang ELSE language

\* const headers = { Accept, 'Accept-language', ...options.headers } of the
\* class with untyped options
RequestHeadersUntyped(o, language) ==
  Spread([k \in {"Accept", "Accept-language"} |->
            IF k = "Accept" THEN AV_HEADER ELSE Lang(AcceptLanguageUntyped(o, language))],
         o.headers)

\* A constructor that only refuses a key that was not given.
KeyMissingOnlyUndefined(apiKey) == apiKey = Undefined

\* if (!apiKey)
KeyMissing(apiKey) == ~Truthy(apiKey)

NotConstructed == [state |-> "new", apiKey |-> Undefined, message |-> ""]
Constructed(apiKey) == [state |-> "made", apiKey |-> apiKey, message |-> ""]
\* throw new Error('API key is required')
Thrown(apiKey) == [state |-> "thrown", apiKey |-> apiKey, message |-> "API key is required"]

\* login(this.apiKey), when getToken() called it.
CredentialsAfter(old, t, apiKey) == IF t.login THEN Append(old, apiKey) ELSE old

\* Authorization set only when the caller gave none.
AuthorizeIfAbsent(headers, token) ==
  IF "Authorization" \in DOMAIN headers THEN headers
  ELSE Assign(headers, "Authorization", Bearer(token))

\* headers.Authorization = `Bearer ${token}`
Authorize(headers, token) == Assign(headers, "Authorization", Bearer(token))

\* url.format({ pathname, query }): every parameter in its printed form.
UrlQuery(query) == [k \in DOMAIN query |-> query[k][2]]

\* fetch(requestURL, { headers }) for the query's page q
Request(o, q, token) ==
  [path |-> o.path, page |-> q, query |-> UrlQuery(o.query),
   headers |-> Authorize(IF client.version = "typed"
                           THEN RequestHeaders(o, client.language)
                           ELSE RequestHeadersUntyped(o, client.language),
                         token)]

(***************************************************************************)
(* The response validator.                                                 *)
(***************************************************************************)
checkHttpError(res) == res.status >= 200 /\ res.status <= 299

checkJsonError(res) ==
  IF ~res.body.json THEN ParseError
  ELSE IF res.body.Error # "" THEN ApiError(res.body.Error)
  ELSE NoOutcome

\* A chain that parses the body before it looks at the status.
ValidateJsonFirst(res) ==
  IF res.net THEN [parsed |-> FALSE, failure |-> TransportError]
  ELSE IF checkJsonError(res) # NoOutcome THEN [parsed |-> TRUE, failure |-> checkJsonError(res)]
  ELSE IF ~checkHttpError(res) THEN [parsed |-> TRUE, failure |-> HttpError(res.status)]
  ELSE [parsed |-> TRUE, failure |-> NoOutcome]

\* A chain without the checkJsonError step.
ValidateHttpOnly(res) ==
  IF res.net THEN [parsed |-> FALSE, failure |-> TransportError]
  ELSE IF ~checkHttpError(res) THEN [parsed |-> FALSE, failure |-> HttpError(res.status)]
  ELSE [parsed |-> FALSE, failure |-> NoOutcome]

\* .then(res => checkHttpError(res)).then(res => checkJsonError(res)):
\* the failure the chain rejects with (NoOutcome: none) and whether the body was parsed.
Validate(res) ==
  IF res.net THEN [parsed |-> FALSE, failure |-> TransportError]
  ELSE IF ~checkHttpError(res) THEN [parsed |-> FALSE, failure |-> HttpError(res.status)]
  ELSE [parsed |-> TRUE, failure |-> checkJsonError(res)]

(***************************************************************************)
(* The pagination aggregator.                                              *)
(***************************************************************************)
\* An aggregator that does not test links.next.
RemainingPagesNoNextTest(env) ==
  IF ~env.data.isArray THEN <<>>
  ELSE IF env.links.last = 0
         THEN (IF env.links.next = 0 THEN <<>> ELSE <<env.links.next>>)
  ELSE [i \in 1..(env.links.last - env.links.next + 1) |-> env.links.next + i - 1]

\* An aggregator that does not test whether data is an array.
RemainingPagesNoArrayTest(env) ==
  IF env.links.next = 0 THEN <<>>
  ELSE IF env.links.last = 0 THEN <<env.links.next>>
  ELSE [i \in 1..(env.links.last - env.links.next + 1) |-> env.links.next + i - 1]

\* An aggregator that counts from next up to last also when last is absent.
RemainingPagesLastRequired(env) ==
  IF ~env.data.isArray \/ env.links.next = 0 THEN <<>>
  ELSE [i \in 1..(env.links.last - env.links.next + 1) |-> env.links.next + i - 1]

\* The page numbers to fetch after a first envelope.
RemainingPages(env) ==
  IF ~env.data.isArray \/ env.links.next = 0 THEN <<>>
  ELSE IF env.links.last = 0 THEN <<env.links.next>>
  ELSE [i \in 1..(env.links.last - env.links.next + 1) |-> env.links.next + i - 1]

\* An aggregator that requests all the remaining pages at once.
NextBatchAll(remaining) == remaining

\* The pages the aggregator requests before it waits for a response: one, the
\* lowest of those remaining.
NextBatch(remaining) == <<Head(remaining)>>

\* The merge of one more page into the data accumulated so far.
Merge(data, more) == [isArray |-> TRUE, items |-> data.items \o more.items]

\* A chain without the getNextPages step: json.data of the first envelope.
ChainOutcomeNoPaging(failure, remaining, data) ==
  IF failure # NoOutcome THEN failure ELSE Value(data)

\* A chain that catches a failed page and resolves with what was merged before it.
ChainOutcomePartial(failure, remaining, data) ==
  IF failure # NoOutcome THEN (IF data.items # <<>> THEN Value(data) ELSE failure)
  ELSE IF remaining = <<>> THEN Value(data)
  ELSE NoOutcome

\* A chain that swallows the failure of a page and goes on with the pages left.
ChainOutcomeSkipsFailedPage(failure, remaining, data) ==
  IF failure # NoOutcome THEN (IF remaining # <<>> THEN NoOutcome ELSE failure)
  ELSE IF remaining = <<>> THEN Value(data)
  ELSE NoOutcome

(***************************************************************************)
(* What sendRequest's promise chain settles with after one response: the   *)
(* first rejection skips every later then-callback and rejects the         *)
(* returned promise; after the last page the chain resolves with           *)
(* json.data; NoOutcome while pages are still to be fetched.               *)
(***************************************************************************)
ChainOutcome(failure, remaining, data) ==
  IF failure # NoOutcome THEN failure
  ELSE IF remaining = <<>> THEN Value(data)
  ELSE NoOutcome
(***************************************************************************)
(* getSeriesAllById: Promise.all over the series and the episodes          *)
(* invocations (invocations 1 and 2), and the object built from its        *)
(* results.                                                                *)
(***************************************************************************)
SeriesCall == 1
EpisodesCall == 2

NotCalled == [kind |-> "idle", error |-> NoOutcome, series |-> NullData, episodes |-> NullData]
AllPending == [NotCalled EXCEPT !.kind = "pending"]

\* A combinator that waits for every promise and resolves with what there is.
PromiseAllSettled(results) ==
  IF \E i \in DOMAIN results : results[i].kind = "none" THEN NoOutcome
  ELSE [kind |-> "value", values |-> [i \in DOMAIN results |-> results[i].data]]

\* Promise.all([...]): rejects as soon as one of the promises has rejected (with
\* the rejection of the first in the array when several reject in one step),
\* resolves with the array of values once all have resolved.
PromiseAll(results) ==
  IF \E i \in DOMAIN results : results[i].kind = "error"
    THEN results[CHOOSE i \in DOMAIN results :
                   /\ results[i].kind = "error"
                   /\ \A j \in DOMAIN results : results[j].kind = "error" => i <= j]
  ELSE IF \A i \in DOMAIN results : results[i].kind = "value"
    THEN [kind |-> "value", values |-> [i \in DOMAIN results |-> results[i].data]]
  ELSE NoOutcome

\* const results = await Promise.all([...]); return { ...results[0], episodes: results[1] }
\* p is the promise so far, outs the outcomes of the invocations after the step.
SeriesAllAfter(p, outs) ==
  LET r == PromiseAll(<<outs[SeriesCall], outs[EpisodesCall]>>) IN
    IF p.kind # "pending" \/ r.kind = "none" THEN p
    ELSE IF r.kind = "error" THEN [NotCalled EXCEPT !.kind = "error", !.error = r]
    ELSE [NotCalled EXCEPT !.kind = "value", !.series = r.values[1], !.episodes = r.values[2]]

\* if (options?.query): the path getEpisodesBySeriesId asks for.
EpisodesPath(o) == IF o.page # 0 \/ DOMAIN o.query # {} THEN "series/1/episodes/query" ELSE "series/1/episodes"

(***************************************************************************)
(* getSeriesImages and getSeasonPosters: the options they hand on.         *)
(***************************************************************************)
ImagesPath == "series/1/images/query"

NoArguments ==
  [method |-> "sendRequest", keyType |-> Null, season |-> Null,
   options |-> CHOOSE o \in AllOptions : TRUE]

\* The query object { page, ...parameters } put in the place of options.query.
WithQuery(o, pageOf, parameters) == [o EXCEPT !.page = pageOf, !.query = parameters]

\* const query = { ...(keyType === null ? {} : { query: { keyType } }) };
\* const reqOpts = { ...options, ...query }
getSeriesImagesOptions(keyType, o) ==
  IF keyType = Null THEN o
  ELSE WithQuery(o, 0, [k \in {"keyType"} |-> keyType])

\* const query = { keyType: 'season', subKey: String(season) } (subKey: season in
\* the class with untyped options); const reqOpts = { ...options, query }
getSeasonPostersOptions(version, season, o) ==
  WithQuery(o, 0,
            [k \in {"keyType", "subKey"} |->
               IF k = "keyType" THEN Str("season")
               ELSE IF version = "typed" THEN String(season) ELSE season])

(***************************************************************************)
(* this.getToken().then(token => { ...; return fetch(requestURL, ...) })   *)
(* for one request of an invocation, given the token promise tp: the        *)
(* callback runs once tp is resolved, the chain rejects once tp is         *)
(* rejected, and the invocation waits while tp is pending.                 *)
(***************************************************************************)
\* A chain in which a rejected login is not propagated: the invocation keeps waiting.
PcAfterTokenDropsRejection(tp) ==
  CASE tp.st = "resolved" -> "fetching"
    [] OTHER -> "awaitToken"

PcAfterToken(tp) ==
  CASE tp.st = "resolved" -> "fetching"
    [] tp.st = "rejected" -> "failed"
    [] OTHER -> "awaitToken"

\* A chain that fetches without waiting for the login.
SentAfterTokenEager(old, o, q, tp) ==
  IF tp.st # "rejected" THEN Append(old, Request(o, q, tp.tok)) ELSE old

SentAfterToken(old, o, q, tp) ==
  IF tp.st = "resolved" THEN Append(old, Request(o, q, tp.tok)) ELSE old

RECURSIVE SentAfterTokenEach(_, _, _, _)
\* SentAfterToken for each page of a batch, in order.
SentAfterTokenEach(old, o, pages, tp) ==
  IF pages = <<>> THEN old
  ELSE SentAfterTokenEach(SentAfterToken(old, o, Head(pages), tp), o, Tail(pages), tp)

OutcomeAfterToken(tp) == IF tp.st = "rejected" THEN AuthError ELSE NoOutcome

SettledAfterToken(n, tp) == IF tp.st = "rejected" THEN n + 1 ELSE n

(***************************************************************************)
(* Init: a fresh client, no invocation started.                            *)
(***************************************************************************)
Fresh ==
  /\ server \in Servers
  /\ tokenPromise = Unset
  /\ loginCalls = 0
  /\ pc = [c \in Calls |-> "idle"]
  /\ args = [c \in Calls |-> CHOOSE o \in AllOptions : TRUE]
  /\ page = [c \in Calls |-> 0]
  /\ todo = [c \in Calls |-> <<>>]
  /\ acc = [c \in Calls |-> NullData]
  /\ sent = [c \in Calls |-> <<>>]
  /\ parses = [c \in Calls |-> 0]
  /\ lastRes = [c \in Calls |-> NoResponse]
  /\ outcome = [c \in Calls |-> NoOutcome]
  /\ settled = [c \in Calls |-> 0]
  /\ all = NotCalled
  /\ called = [c \in Calls |-> NoArguments]
  /\ credentials = <<>>

\* new TheTVDB(apiKey) of the class with typed options.
Init ==
  /\ client = [version |-> "typed", language |-> DefaultLanguage(Undefined)]
  /\ construction = Constructed("key")
  /\ Fresh

\* new TheTVDB(apiKey) or new TheTVDB(apiKey, 'ja'), of either class.
InitClients ==
  /\ client \in Clients
  /\ construction = Constructed("key")
  /\ Fresh

\* Before new TheTVDB(...) is evaluated.
InitNew ==
  /\ client = NoClient
  /\ construction = NotConstructed
  /\ Fresh

(***************************************************************************)
(* new TheTVDB(apiKey, language), of either class: it throws when apiKey   *)
(* is missing or empty, and otherwise returns a client holding the key and *)
(* the language.                                                           *)
(***************************************************************************)
Construct(version, apiKey, language) ==
  /\ construction.state = "new"
  /\ IF KeyMissing(apiKey)
       THEN /\ construction' = Thrown(apiKey)
            /\ client' = client
       ELSE /\ construction' = Constructed(apiKey)
            /\ client' = [version |-> version, language |-> DefaultLanguage(language)]
  /\ UNCHANGED <<server, tokenPromise, loginCalls, pc, args, page, todo, acc, sent, parses,
                 lastRes, outcome, settled, all, called, credentials>>

(***************************************************************************)
(* sendRequest(path, opts), up to the point where it returns its promise:  *)
(* the options and headers are built and getToken() is called.             *)
(* Invocations are numbered in the order in which they are made.           *)
(***************************************************************************)
sendRequest(c, o) ==
  /\ construction.state = "made"
  /\ pc[c] = "idle"
  /\ \A d \in Calls : d < c => pc[d] # "idle"
  /\ LET t == getToken(tokenPromise) IN
       /\ tokenPromise' = t.promise
       /\ loginCalls' = IF t.login THEN loginCalls + 1 ELSE loginCalls
       /\ credentials' = CredentialsAfter(credentials, t, construction.apiKey)
       /\ args' = [args EXCEPT ![c] = o]
       /\ page' = [page EXCEPT ![c] = o.page]
       /\ pc' = [pc EXCEPT ![c] = PcAfterToken(t.promise)]
       /\ sent' = [sent EXCEPT ![c] = SentAfterToken(@, o, o.page, t.promise)]
       /\ outcome' = [outcome EXCEPT ![c] = OutcomeAfterToken(t.promise)]
       /\ settled' = [settled EXCEPT ![c] = SettledAfterToken(@, t.promise)]
  /\ UNCHANGED <<client, server, todo, acc, parses, lastRes, all, construction>>

\* A caller invokes sendRequest(path, opts) itself.
SendRequest(c, o) == sendRequest(c, o) /\ UNCHANGED called

(***************************************************************************)
(* getSeriesImages(seriesId, keyType, options) and                         *)
(* getSeasonPosters(seriesId, season, options), which calls it with a null *)
(* keyType.                                                                *)
(***************************************************************************)
GetSeriesImages(c, keyType, o) ==
  /\ sendRequest(c, [getSeriesImagesOptions(keyType, o) EXCEPT !.path = ImagesPath])
  /\ called' = [called EXCEPT ![c] =
        [method |-> "getSeriesImages", keyType |-> keyType, season |-> Null, options |-> o]]

GetSeasonPosters(c, season, o) ==
  /\ sendRequest(c, [getSeriesImagesOptions(Null, getSeasonPostersOptions(client.version, season, o))
                       EXCEPT !.path = ImagesPath])
  /\ called' = [called EXCEPT ![c] =
        [method |-> "getSeasonPosters", keyType |-> Null, season |-> season, options |-> o]]

(***************************************************************************)
(* The login exchange completes.  The then-callbacks of every invocation   *)
(* waiting on the promise run before any other event is handled.           *)
(***************************************************************************)
Settle(tp) ==
  /\ tokenPromise' = tp
  /\ pc' = [c \in Calls |-> IF pc[c] = "awaitToken" THEN PcAfterToken(tp) ELSE pc[c]]
  /\ sent' = [c \in Calls |->
        IF pc[c] = "awaitToken" THEN SentAfterToken(sent[c], OptionsOf(c), page[c], tp) ELSE sent[c]]
  /\ outcome' = [c \in Calls |->
        IF pc[c] = "awaitToken" THEN OutcomeAfterToken(tp) ELSE outcome[c]]
  /\ settled' = [c \in Calls |->
        IF pc[c] = "awaitToken" THEN SettledAfterToken(settled[c], tp) ELSE settled[c]]
  /\ all' = SeriesAllAfter(all, outcome')
  /\ UNCHANGED <<client, server, loginCalls, args, page, todo, acc, parses, lastRes, called,
                 construction, credentials>>

\* login resolves with the token of the server's answer.
LoginResolves(token) ==
  /\ tokenPromise.st = "pending"
  /\ Settle(Resolved(token))

\* login rejects: the credential exchange was refused or its answer was malformed.
LoginRejects ==
  /\ tokenPromise.st = "pending"
  /\ Settle(Rejected)

\* The answers the request in flight of invocation c can get.
Answers(c) ==
  IF args[c].path = SeriesPath THEN Responses(SeriesServer, 0)
  ELSE Responses(server, page[c])

(***************************************************************************)
(* A response (or a network failure) arrives for the request in flight and *)
(* the rest of the chain runs: checkHttpError, checkJsonError,             *)
(* getNextPages and, after the last page, json.data.                       *)
(***************************************************************************)
Respond(c, res) ==
  /\ pc[c] = "fetching"
  /\ res \in Answers(c)
  /\ lastRes' = [lastRes EXCEPT ![c] = res]
  /\ LET v == Validate(res)
         first == Len(sent[c]) = 1
         newTodo == IF first THEN RemainingPages(res.body) ELSE todo[c]
         newAcc == IF first THEN res.body.data ELSE Merge(acc[c], res.body.data)
     IN
       /\ parses' = [parses EXCEPT ![c] = IF v.parsed THEN @ + 1 ELSE @]
       /\ IF ChainOutcome(v.failure, newTodo, newAcc) # NoOutcome
            THEN /\ pc' = [pc EXCEPT ![c] = IF v.failure # NoOutcome THEN "failed" ELSE "done"]
                 /\ outcome' = [outcome EXCEPT ![c] = ChainOutcome(v.failure, newTodo, newAcc)]
                 /\ settled' = [settled EXCEPT ![c] = @ + 1]
                 /\ UNCHANGED <<tokenPromise, loginCalls, credentials, page, todo, acc, sent>>
            ELSE LET t == getToken(tokenPromise) IN
                 /\ tokenPromise' = t.promise
                 /\ loginCalls' = IF t.login THEN loginCalls + 1 ELSE loginCalls
                 /\ credentials' = CredentialsAfter(credentials, t, construction.apiKey)
                 /\ acc' = [acc EXCEPT ![c] = newAcc]
                 /\ todo' = [todo EXCEPT ![c] =
                               SubSeq(newTodo, Len(NextBatch(newTodo)) + 1, Len(newTodo))]
                 /\ page' = [page EXCEPT ![c] = Head(newTodo)]
                 /\ pc' = [pc EXCEPT ![c] = PcAfterToken(t.promise)]
                 /\ sent' = [sent EXCEPT ![c] =
                               SentAfterTokenEach(@, OptionsOf(c), NextBatch(newTodo), t.promise)]
                 /\ outcome' = [outcome EXCEPT ![c] = OutcomeAfterToken(t.promise)]
                 /\ settled' = [settled EXCEPT ![c] = SettledAfterToken(@, t.promise)]
  /\ all' = SeriesAllAfter(all, outcome')
  /\ UNCHANGED <<client, server, args, called, construction>>

(***************************************************************************)
(* getSeriesAllById(seriesId, options) on a fresh client, up to its await: *)
(* getSeriesById and getEpisodesBySeriesId are called one after the other  *)
(* and each runs sendRequest up to the point where it returns its promise. *)
(***************************************************************************)
GetSeriesAllById(o) ==
  /\ construction.state = "made"
  /\ all.kind = "idle"
  /\ \A c \in Calls : pc[c] = "idle"
  /\ LET o1 == [o EXCEPT !.path = SeriesPath]
         o2 == [o EXCEPT !.path = EpisodesPath(o)]
         t1 == getToken(tokenPromise)
         t2 == getToken(t1.promise)
         both == {SeriesCall, EpisodesCall}
         opts == [c \in both |-> IF c = SeriesCall THEN o1 ELSE o2]
         tp == [c \in both |-> IF c = SeriesCall THEN t1.promise ELSE t2.promise]
     IN
       /\ tokenPromise' = t2.promise
       /\ loginCalls' = loginCalls + (IF t1.login THEN 1 ELSE 0) + (IF t2.login THEN 1 ELSE 0)
       /\ credentials' = CredentialsAfter(CredentialsAfter(credentials, t1, construction.apiKey),
                                          t2, construction.apiKey)
       /\ args' = [c \in Calls |-> IF c \in both THEN opts[c] ELSE args[c]]
       /\ page' = [c \in Calls |-> IF c \in both THEN o.page ELSE page[c]]
       /\ pc' = [c \in Calls |-> IF c \in both THEN PcAfterToken(tp[c]) ELSE pc[c]]
       /\ sent' = [c \in Calls |->
             IF c \in both THEN SentAfterToken(sent[c], opts[c], o.page, tp[c]) ELSE sent[c]]
       /\ outcome' = [c \in Calls |->
             IF c \in both THEN OutcomeAfterToken(tp[c]) ELSE outcome[c]]
       /\ settled' = [c \in Calls |->
             IF c \in both THEN SettledAfterToken(settled[c], tp[c]) ELSE settled[c]]
  /\ all' = SeriesAllAfter(AllPending, outcome')
  /\ UNCHANGED <<client, server, todo, acc, parses, lastRes, called, construction>>

Next ==
  \/ \E c \in Calls, o \in CallOptions : SendRequest(c, o)
  \/ \E token \in Tokens : LoginResolves(token)
  \/ LoginRejects
  \/ \E c \in Calls : \E res \in Responses(server, page[c]) : Respond(c, res)

Spec == Init /\ [][Next]_vars

(***************************************************************************)
(* Invocations without options, sendRequest(path), where the login and     *)
(* every fetch in flight are eventually answered.                          *)
(***************************************************************************)
NoOptions ==
  [path |-> "series/1/episodes", page |-> 0, headers |-> EmptyObject,
   lang |-> Undefined, language |-> Undefined, query |-> EmptyObject]

LoginAnswered == (\E token \in Tokens : LoginResolves(token)) \/ LoginRejects

FetchAnswered(c) == \E res \in Responses(server, page[c]) : Respond(c, res)

NextNoOptions ==
  \/ \E c \in Calls : SendRequest(c, NoOptions)
  \/ \E token \in Tokens : LoginResolves(token)
  \/ LoginRejects
  \/ \E c \in Calls : \E res \in Responses(server, page[c]) : Respond(c, res)

FairSpec ==
  /\ Init
  /\ [][NextNoOptions]_vars
  /\ WF_vars(LoginAnswered)
  /\ \A c \in Calls : WF_vars(FetchAnswered(c))

(***************************************************************************)
(* One invocation, its arguments drawn from every combination of options.  *)
(***************************************************************************)
NextOptions ==
  \/ \E o \in AllOptions : SendRequest(1, o)
  \/ \E token \in Tokens : LoginResolves(token)
  \/ LoginRejects
  \/ \E res \in Responses(server, page[1]) : Respond(1, res)

SpecOptions == Init /\ [][NextOptions]_vars

(***************************************************************************)
(* One invocation on a client of either class, constructed with or without *)
(* a language.                                                             *)
(***************************************************************************)
NextClients ==
  \/ \E o \in LanguageOptions : SendRequest(1, o)
  \/ \E token \in Tokens : LoginResolves(token)
  \/ LoginRejects
  \/ \E res \in Responses(server, page[1]) : Respond(1, res)

SpecClients == InitClients /\ [][NextClients]_vars

(***************************************************************************)
(* Concurrent invocations that differ in everything a caller can choose:   *)
(* sendRequest(path) and a search from page 2 with a language and headers  *)
(* of its own.                                                             *)
(***************************************************************************)
OwnOptions ==
  [path |-> "search/series", page |-> 2,
   headers |-> [k \in CallerHeaderNames |-> CallerValue(k)],
   lang |-> "de", language |-> Undefined, query |-> EmptyObject]

NextIsolation ==
  \/ \E c \in Calls, o \in {NoOptions, OwnOptions} : SendRequest(c, o)
  \/ \E token \in Tokens : LoginResolves(token)
  \/ LoginRejects
  \/ \E c \in Calls : \E res \in Responses(server, page[c]) : Respond(c, res)

SpecIsolation == Init /\ [][NextIsolation]_vars

(***************************************************************************)
(* getSeriesAllById(1) and getSeriesAllById(1, {query: {page: 2}}) on a    *)
(* fresh client whose episodes endpoint is a list.                         *)
(***************************************************************************)
SeriesAllOptions == {NoOptions, [NoOptions EXCEPT !.page = 2]}

InitSeriesAll == Init /\ server.shape = "array"

NextSeriesAll ==
  \/ \E o \in SeriesAllOptions : GetSeriesAllById(o)
  \/ \E token \in Tokens : LoginResolves(token)
  \/ LoginRejects
  \/ \E c \in {SeriesCall, EpisodesCall} : \E res \in Answers(c) : Respond(c, res)

SpecSeriesAll == InitSeriesAll /\ [][NextSeriesAll]_vars

(***************************************************************************)
(* One getSeriesImages or getSeasonPosters invocation on a client of       *)
(* either class, with and without a query of the caller's.                 *)
(***************************************************************************)
KeyTypes == {Null, Str("fanart")}
Seasons == {Num("1"), Str("2")}
ImageOptions ==
  {[NoOptions EXCEPT !.page = q, !.query = ps] :
     q \in StartPages, ps \in {EmptyObject, [k \in {"subKey"} |-> Str("graphical")]}}

NextImages ==
  \/ \E keyType \in KeyTypes, o \in ImageOptions : GetSeriesImages(1, keyType, o)
  \/ \E season \in Seasons, o \in ImageOptions : GetSeasonPosters(1, season, o)
  \/ \E token \in Tokens : LoginResolves(token)
  \/ LoginRejects
  \/ \E res \in Answers(1) : Respond(1, res)

SpecImages == InitClients /\ [][NextImages]_vars

(***************************************************************************)
(* From before the construction: new TheTVDB(...) with or without a key,   *)
(* and then invocations on the client, if there is one.                    *)
(***************************************************************************)
NextNew ==
  \/ \E version \in Versions, apiKey \in ApiKeys, language \in {Undefined, "ja"} :
       Construct(version, apiKey, language)
  \/ \E o \in CallOptions : SendRequest(1, o)
  \/ \E token \in Tokens : LoginResolves(token)
  \/ LoginRejects
  \/ \E res \in Answers(1) : Respond(1, res)

SpecNew == InitNew /\ [][NextNew]_vars
(***************************************************************************)
(* Properties.                                                             *)
(***************************************************************************)
Started(c) == pc[c] # "idle"

\* The page the first request of invocation c asks for, and the links of its envelope.
FirstPage(c) == PageOf(args[c].page)
FirstLinks(c) == PageLinks(server, FirstPage(c))

RECURSIVE ConcatPages(_, _, _)
\* The items of pages from..to of server s, page after page.
ConcatPages(s, from, to) ==
  IF from > to THEN <<>> ELSE PageData(s, from).items \o ConcatPages(s, from + 1, to)

\* C1: however many sendRequest invocations have been started on the client, and
\* whether or not the login has completed, login has been called exactly once
\* (and never before the first invocation).
C1_LoginStartedOnce ==
  /\ loginCalls <= 1
  /\ (\E c \in Calls : Started(c)) <=> loginCalls = 1

\* Every invocation has been started while the login was still in flight.
C1_Witness ==
  /\ \A c \in Calls : pc[c] = "awaitToken"
  /\ tokenPromise.st = "pending"
  /\ loginCalls = 1

\* C2: an invocation that succeeds on a list endpoint whose first envelope has
\* links next = n and last = m, n <= m, returns the first page's items followed
\* by the items of pages n, n+1, ..., m, in that order.
C2_PagesMergedInOrder ==
  \A c \in Calls :
    ( /\ pc[c] = "done"
      /\ server.shape = "array"
      /\ FirstLinks(c).next # 0
      /\ FirstLinks(c).last # 0
      /\ FirstLinks(c).next <= FirstLinks(c).last )
    => outcome[c] =
         Value([isArray |-> TRUE,
                items |-> PageData(server, FirstPage(c)).items
                            \o ConcatPages(server, FirstLinks(c).next, FirstLinks(c).last)])

\* links = {next: 2, last: 3}: [1,2] + [3,4] + [5,6] has been returned as [1,...,6].
C2_Witness ==
  \E c \in Calls :
    /\ pc[c] = "done"
    /\ FirstLinks(c) = [next |-> 2, last |-> 3]
    /\ outcome[c].data.items = <<1, 2, 3, 4, 5, 6>>

\* C3: an invocation whose first envelope has no links.next never issues a second
\* fetch, and when it succeeds it has issued exactly one fetch and returns the
\* first page's data as received.
C3_NoNextNoMoreFetches ==
  \A c \in Calls :
    (Started(c) /\ FirstPage(c) <= server.last /\ FirstLinks(c).next = 0)
    => /\ Len(sent[c]) <= 1
       /\ pc[c] = "done" =>
            /\ Len(sent[c]) = 1
            /\ outcome[c] = Value(PageData(server, FirstPage(c)))

\* A single-page answer whose links carry `last` has been returned after one fetch.
C3_Witness ==
  \E c \in Calls :
    /\ pc[c] = "done"
    /\ FirstLinks(c).next = 0
    /\ FirstLinks(c).last # 0
    /\ Len(sent[c]) = 1
\* The classification of a failing response, stated from the error taxonomy.
IsHttpFailure(r) == ~r.net /\ r # NoResponse /\ (r.status < 200 \/ r.status > 299)
IsApiFailure(r) ==
  ~r.net /\ r.status >= 200 /\ r.status <= 299 /\ r.body.json /\ r.body.Error # ""
IsParseFailure(r) == ~r.net /\ r.status >= 200 /\ r.status <= 299 /\ ~r.body.json

\* C4: an invocation whose last response had a non-2xx status has failed with an
\* HttpError carrying that status, whatever the body, and that response's body was
\* not parsed: only the responses before it were.
C4_StatusCheckedBeforeBody ==
  \A c \in Calls :
    IsHttpFailure(lastRes[c])
    => /\ pc[c] = "failed"
       /\ outcome[c] = HttpError(lastRes[c].status)
       /\ parses[c] = Len(sent[c]) - 1

\* A 401 whose body is valid JSON carrying an Error field has been answered with
\* HttpError 401 and no parse.
C4_Witness ==
  \E c \in Calls :
    /\ lastRes[c].status = 401
    /\ lastRes[c].body.json
    /\ lastRes[c].body.Error # ""
    /\ outcome[c] = HttpError(401)
    /\ parses[c] = 0

\* C5: an invocation whose last response had a 2xx status and a parsed body with a
\* non-empty Error field has failed with an ApiError carrying that message; it
\* returned no value and issued no fetch after that response.
C5_ErrorFieldFailsCall ==
  \A c \in Calls :
    IsApiFailure(lastRes[c])
    => /\ pc[c] = "failed"
       /\ outcome[c] = ApiError(lastRes[c].body.Error)
       /\ outcome[c].kind # "value"
       /\ parses[c] = Len(sent[c])

\* A 200 whose envelope announces a next page but carries Error has failed the
\* invocation after its single fetch.
C5_Witness ==
  \E c \in Calls :
    /\ lastRes[c].status = 200
    /\ lastRes[c].body.Error = "ID not found"
    /\ lastRes[c].body.links.next # 0
    /\ outcome[c] = ApiError("ID not found")
    /\ Len(sent[c]) = 1

\* The pages an invocation has asked for, in the order of its requests.
SentPages(c) == [i \in 1..Len(sent[c]) |-> PageOf(sent[c][i].page)]

\* C6: an invocation one of whose fetches failed has failed with the error of that
\* response (TransportError, HttpError with its status, ParseError, ApiError with
\* its message) and carries no data; an invocation on a list endpoint whose first
\* envelope has links next and last returns a value only after every page from
\* the first through last was fetched and validated, and the value is all of them.
C6_FailedPageFailsCall ==
  \A c \in Calls :
    /\ (pc[c] = "failed" /\ Len(sent[c]) >= 1)
       => /\ outcome[c].kind = "error"
          /\ outcome[c].data = NullData
          /\ lastRes[c].net => outcome[c] = TransportError
          /\ IsHttpFailure(lastRes[c]) => outcome[c] = HttpError(lastRes[c].status)
          /\ IsParseFailure(lastRes[c]) => outcome[c] = ParseError
          /\ IsApiFailure(lastRes[c]) => outcome[c] = ApiError(lastRes[c].body.Error)
    /\ outcome[c].kind = "value"
       => /\ pc[c] = "done"
          /\ parses[c] = Len(sent[c])
          /\ (server.shape = "array" /\ FirstLinks(c).next # 0 /\ FirstLinks(c).last # 0)
             => /\ SentPages(c) =
                     [i \in 1..(FirstLinks(c).last - FirstPage(c) + 1) |-> FirstPage(c) + i - 1]
                /\ outcome[c].data.items = ConcatPages(server, FirstPage(c), FirstLinks(c).last)

\* Page 2 of a three-page aggregation has failed with HttpError 401 after page 1
\* had been merged.
C6_Witness ==
  \E c \in Calls :
    /\ FirstLinks(c) = [next |-> 2, last |-> 3]
    /\ Len(sent[c]) = 2
    /\ acc[c].items = <<1, 2>>
    /\ pc[c] = "failed"
    /\ outcome[c] = HttpError(401)
Completed(c) == pc[c] \in {"done", "failed"}

\* C7: the promise of an invocation is settled at most once, with a value exactly
\* when the invocation is done and with an error exactly when it has failed; once
\* settled, its outcome never changes; and when the login and every fetch are
\* answered, every started invocation eventually completes.
C7_CompletesExactlyOnce ==
  /\ [](\A c \in Calls :
          /\ settled[c] <= 1
          /\ settled[c] = 1 <=> Completed(c)
          /\ pc[c] = "done" <=> outcome[c].kind = "value"
          /\ pc[c] = "failed" <=> outcome[c].kind = "error")
  /\ [][\A c \in Calls :
          Completed(c) => (outcome'[c] = outcome[c] /\ pc'[c] = pc[c] /\ sent'[c] = sent[c])]_vars
  /\ \A c \in Calls : Started(c) ~> Completed(c)

\* One invocation has returned a value and another has failed, each settled once.
C7_Witness ==
  \E c, d \in Calls :
    /\ outcome[c].kind = "value" /\ settled[c] = 1
    /\ outcome[d].kind = "error" /\ settled[d] = 1

\* C8: a fetch has been issued only if the login has resolved; when the login has
\* been rejected, every started invocation has failed with the AuthError and has
\* issued no fetch.
C8_NoFetchBeforeLogin ==
  /\ \A c \in Calls : Len(sent[c]) > 0 => tokenPromise.st = "resolved"
  /\ tokenPromise.st = "rejected"
       => \A c \in Calls :
            Started(c) => (pc[c] = "failed" /\ outcome[c] = AuthError /\ sent[c] = <<>>)

\* The login has been rejected and every invocation has failed without a fetch.
C8_Witness ==
  /\ tokenPromise.st = "rejected"
  /\ \A c \in Calls : pc[c] = "failed" /\ outcome[c] = AuthError /\ sent[c] = <<>>

\* C9: once the token promise has resolved, no step changes it or calls login
\* again, whatever the invocations' outcomes; and every request ever sent carries
\* the client's one token.
C9_TokenNeverReplaced ==
  /\ [][tokenPromise.st = "resolved"
          => (tokenPromise' = tokenPromise /\ loginCalls' = loginCalls)]_vars
  /\ [](\A c \in Calls : \A i \in 1..Len(sent[c]) :
          sent[c][i].headers["Authorization"] = Bearer(tokenPromise.tok))

\* One invocation has failed with HttpError 401 and another has completed all its
\* fetches with the same token, with still one login.
C9_Witness ==
  \E c, d \in Calls :
    /\ outcome[c] = HttpError(401)
    /\ pc[d] = "done" /\ Len(sent[d]) >= 2
    /\ sent[d][Len(sent[d])].headers["Authorization"] = sent[c][1].headers["Authorization"]
    /\ loginCalls = 1

\* C10: every request carries Authorization = Bearer <token of the client>, also
\* when the caller's headers hold an Authorization of their own, while a caller's
\* Accept or Accept-language takes the place of the computed value (which is sent
\* when the caller gives none).
C10_AuthorizationAlwaysWins ==
  \A c \in Calls : \A i \in 1..Len(sent[c]) :
    LET h == sent[c][i].headers
        given == args[c].headers
    IN /\ h["Authorization"] = Bearer(tokenPromise.tok)
       /\ h["Accept"] = IF "Accept" \in DOMAIN given THEN given["Accept"] ELSE AV_HEADER
       /\ "Accept-language" \in DOMAIN given => h["Accept-language"] = given["Accept-language"]
       /\ "Accept-language" \notin DOMAIN given => h["Accept-language"][1] = "lang"

\* A caller gave all three headers: the request went out with the client's token
\* and the caller's Accept and Accept-language.
C10_Witness ==
  \E c \in Calls :
    /\ Len(sent[c]) >= 1
    /\ DOMAIN args[c].headers = {"Accept", "Accept-language", "Authorization"}
    /\ sent[c][1].headers["Authorization"] = Bearer(tokenPromise.tok)
    /\ sent[c][1].headers["Accept"] = CallerValue("Accept")
    /\ sent[c][1].headers["Accept-language"] = CallerValue("Accept-language")
\* C11: two invocations made with the same path and options that both return a
\* value return equal values, whatever the interleaving of their steps.
C11_SameFetchSameResult ==
  \A c, d \in Calls :
    (args[c] = args[d] /\ outcome[c].kind = "value" /\ outcome[d].kind = "value")
    => outcome[c] = outcome[d]

\* Two invocations with the same arguments have each merged several pages.
C11_Witness ==
  \E c, d \in Calls :
    /\ c # d /\ args[c] = args[d]
    /\ pc[c] = "done" /\ pc[d] = "done"
    /\ Len(sent[c]) >= 3 /\ Len(sent[d]) >= 3
    /\ outcome[c].data = outcome[d].data
\* C12: of the requests an invocation has issued, all but the latest have been
\* answered and their bodies parsed: at most one fetch of the invocation is in
\* flight, and the request for the next page is issued only once the response to
\* the one before it has been received and validated.
C12_PageFetchesSequential ==
  \A c \in Calls :
    /\ Len(sent[c]) >= 1 => parses[c] >= Len(sent[c]) - 1
    /\ pc[c] = "fetching" => parses[c] = Len(sent[c]) - 1

\* The third page is in flight after the first two were received and merged.
C12_Witness ==
  \E c \in Calls :
    /\ pc[c] = "fetching"
    /\ Len(sent[c]) = 3
    /\ parses[c] = 2
    /\ acc[c].items = <<1, 2, 3, 4>>
IsFailure(r) == r.net \/ IsHttpFailure(r) \/ IsParseFailure(r) \/ IsApiFailure(r)

\* C14: the step that handles a failing response of an invocation fails the
\* invocation and issues no request, and a failed invocation never issues one
\* later: the failed request is not retried, the pages left are not requested.
C14_NoFetchAfterFailure ==
  /\ [][\A c \in Calls :
          (pc[c] = "fetching" /\ IsFailure(lastRes'[c]))
          => (pc'[c] = "failed" /\ sent'[c] = sent[c])]_vars
  /\ [][\A c \in Calls :
          pc[c] = "failed" => (pc'[c] = "failed" /\ sent'[c] = sent[c])]_vars

\* The second of three or more pages has failed and the pages after it have not
\* been requested.
C14_Witness ==
  \E c \in Calls :
    /\ pc[c] = "failed"
    /\ IsFailure(lastRes[c])
    /\ Len(sent[c]) = 2
    /\ todo[c] # <<>>

\* C15: on an endpoint whose data is not an array an invocation never issues a
\* second fetch, whether or not the envelope's links announce a next page, and
\* when it succeeds it returns the first page's data as received.
C15_ObjectDataNotPaged ==
  \A c \in Calls :
    (Started(c) /\ server.shape = "object")
    => /\ Len(sent[c]) <= 1
       /\ pc[c] = "done" =>
            /\ Len(sent[c]) = 1
            /\ ~outcome[c].data.isArray
            /\ outcome[c] = Value(PageData(server, FirstPage(c)))

\* An object has been returned from an envelope whose links carry next.
C15_Witness ==
  \E c \in Calls :
    /\ pc[c] = "done"
    /\ ~outcome[c].data.isArray
    /\ lastRes[c].body.links.next # 0
    /\ Len(sent[c]) = 1

\* C16: on a list endpoint whose first envelope has links.next but no links.last,
\* an invocation issues at most one more request, for page links.next; once that
\* page has been parsed the invocation is complete, and when it succeeds it has
\* issued exactly two requests and returns the two pages' items.
C16_NoLastOneMoreFetch ==
  \A c \in Calls :
    ( /\ Started(c)
      /\ server.shape = "array"
      /\ FirstPage(c) <= server.last
      /\ FirstLinks(c).next # 0
      /\ FirstLinks(c).last = 0 )
    => /\ Len(sent[c]) <= 2
       /\ Len(sent[c]) = 2 => sent[c][2].page = FirstLinks(c).next
       /\ parses[c] = 2 => Completed(c)
       /\ pc[c] = "done" =>
            /\ Len(sent[c]) = 2
            /\ outcome[c].data.items =
                 PageData(server, FirstPage(c)).items
                   \o PageData(server, FirstLinks(c).next).items

\* Of three or more pages, the first two have been returned: the envelope of
\* page 2 carries next as well and no third request was made.
C16_Witness ==
  \E c \in Calls :
    /\ pc[c] = "done"
    /\ server.last >= 3
    /\ FirstLinks(c) = [next |-> 2, last |-> 0]
    /\ lastRes[c].body.links.next = 3
    /\ outcome[c].data.items = <<1, 2, 3, 4>>

\* C17: once the login has been rejected, no step replaces the token promise,
\* calls login again or issues a request; and every invocation started, before or
\* after the rejection, has failed with the AuthError without a fetch, with login
\* called once.
C17_FailedLoginMemoized ==
  /\ [][tokenPromise.st = "rejected"
          => (tokenPromise' = tokenPromise /\ loginCalls' = loginCalls /\ sent' = sent)]_vars
  /\ [](tokenPromise.st = "rejected"
          => /\ loginCalls = 1
             /\ \A c \in Calls :
                  Started(c) => (outcome[c] = AuthError /\ settled[c] = 1 /\ sent[c] = <<>>))

\* After one rejected login every invocation has been made and has failed, each
\* settled once.
C17_Witness ==
  /\ tokenPromise = Rejected
  /\ loginCalls = 1
  /\ \A c \in Calls : outcome[c] = AuthError /\ settled[c] = 1

\* What an invocation with the arguments of c does when it is the only one on the
\* client, against the same server and the same login answer: its i-th request,
\* the last page it fetches, and the value it returns.
AloneRequest(c, i) ==
  Request(args[c], IF i = 1 THEN args[c].page ELSE FirstLinks(c).next + i - 2,
          tokenPromise.tok)

AloneLastPage(c) ==
  IF server.shape = "object" \/ FirstLinks(c).next = 0 THEN FirstPage(c)
  ELSE IF FirstLinks(c).last = 0 THEN FirstLinks(c).next
  ELSE FirstLinks(c).last

AloneValue(c) ==
  Value(IF server.shape = "object" THEN PageData(server, FirstPage(c))
        ELSE [isArray |-> TRUE,
              items |-> ConcatPages(server, FirstPage(c), AloneLastPage(c))])

\* The state of invocation c, now and after the step.
OfCall(c) ==
  <<pc[c], args[c], page[c], todo[c], acc[c], sent[c], parses[c], lastRes[c],
    outcome[c], settled[c]>>

OfCallNext(c) ==
  <<pc'[c], args'[c], page'[c], todo'[c], acc'[c], sent'[c], parses'[c], lastRes'[c],
    outcome'[c], settled'[c]>>

\* C18: in every interleaving, the requests an invocation has issued are those it
\* issues alone (its own path, page, headers and language, with the client's
\* token), its value is the one it returns alone, and its failure is the login's
\* or that of its own last response; and a step that is not the login's
\* completion changes the state of one invocation at most.
C18_CallsShareOnlyToken ==
  /\ [](\A c \in Calls :
          /\ \A i \in 1..Len(sent[c]) : sent[c][i] = AloneRequest(c, i)
          /\ Len(sent[c]) <= 1 + AloneLastPage(c) - FirstPage(c)
          /\ pc[c] = "done" => outcome[c] = AloneValue(c)
          /\ pc[c] = "failed" =>
                outcome[c] = IF tokenPromise.st = "rejected" THEN AuthError
                             ELSE Validate(lastRes[c]).failure)
  /\ [][tokenPromise'.st = tokenPromise.st
          => \A c, d \in Calls :
               (OfCallNext(c) # OfCall(c) /\ OfCallNext(d) # OfCall(d)) => c = d]_vars

\* A search from page 2 with its own language and headers and an invocation
\* without options have both returned, each its own pages, after requests that
\* differ in path and headers.
C18_Witness ==
  \E c, d \in Calls :
    /\ args[c] = NoOptions /\ args[d] = OwnOptions
    /\ pc[c] = "done" /\ pc[d] = "done"
    /\ outcome[c].data.items = <<1, 2, 3, 4, 5, 6>>
    /\ outcome[d].data.items = <<3, 4, 5, 6>>
    /\ sent[c][2].headers["Accept-language"] = Lang("en")
    /\ sent[d][2].headers["Accept-language"] = CallerValue("Accept-language")
    /\ sent[d][2].path = "search/series"

\* The language the options and the client name: options.lang when set,
\* otherwise options.language when set, otherwise the client's.
NamedLanguage(c) ==
  IF args[c].lang # Undefined THEN args[c].lang
  ELSE IF args[c].language # Undefined THEN args[c].language
  ELSE client.language

\* C19: every request of an invocation whose headers option names no
\* Accept-language carries as Accept-language options.lang when set, otherwise
\* options.language when set, otherwise the language of the client, which is
\* 'en' or the one the constructor was given.
C19_LanguageHeader ==
  /\ client.language \in {"en", "ja"}
  /\ \A c \in Calls : \A i \in 1..Len(sent[c]) :
       "Accept-language" \notin DOMAIN args[c].headers
       => sent[c][i].headers["Accept-language"] = Lang(NamedLanguage(c))

\* C19 on a client of the class with typed options.
C19_LanguageHeaderTyped == client.version = "typed" => C19_LanguageHeader

\* sendRequest(path, {language: 'fr'}) on a client of the class with untyped
\* options, constructed without a language, has gone out with Accept-language: en.
C19_Witness ==
  \E c \in Calls :
    /\ client = [version |-> "untyped", language |-> "en"]
    /\ args[c].lang = Undefined /\ args[c].language = "fr"
    /\ args[c].headers = EmptyObject
    /\ Len(sent[c]) >= 1
    /\ sent[c][1].headers["Accept-language"] = Lang("en")

\* The two invocations of getSeriesAllById.
Both == {SeriesCall, EpisodesCall}

\* C20: getSeriesAllById starts its two invocations in one step, with one login
\* between them, and their first requests are issued in one step, before either
\* has an answer; it returns a value exactly when both invocations have returned
\* one, the series object with, as episodes, the list the episodes invocation
\* aggregated (first page to last page when the server reports the last page);
\* and it fails exactly when one of the two has failed, with the failure of one
\* of them.
C20_SeriesAllBothOrNeither ==
  /\ [](all.kind # "idle" =>
          /\ \A c \in Both : Started(c)
          /\ args[SeriesCall].path = SeriesPath
          /\ args[EpisodesCall].path = EpisodesPath(args[EpisodesCall])
          /\ loginCalls = 1
          /\ sent[SeriesCall] = <<>> <=> sent[EpisodesCall] = <<>>
          /\ all.kind = "value" <=> \A c \in Both : outcome[c].kind = "value"
          /\ all.kind = "value" =>
                /\ all.series = PageData(SeriesServer, 1)
                /\ all.episodes = outcome[EpisodesCall].data
                /\ server.reportsLast =>
                      all.episodes.items =
                        ConcatPages(server, FirstPage(EpisodesCall), server.last)
          /\ all.kind = "error" <=> \E c \in Both : outcome[c].kind = "error"
          /\ all.kind = "error" => \E c \in Both : all.error = outcome[c])
  /\ [](all.kind = "idle" => \A c \in Both : ~Started(c))
  /\ [][\A c \in Both :
          (sent[c] = <<>> /\ sent'[c] # <<>>) => \A d \in Both : parses[d] = 0]_vars

\* getSeriesAllById(1) has returned the series with the episodes of all three
\* pages, after one login.
C20_Witness ==
  /\ all.kind = "value"
  /\ all.series.items = <<1>>
  /\ all.episodes.items = <<1, 2, 3, 4, 5, 6>>
  /\ Len(sent[SeriesCall]) = 1
  /\ Len(sent[EpisodesCall]) = 3
  /\ loginCalls = 1

\* The query a request of invocation c went out with: its parameters and its page.
SentQuery(c, i) == [parameters |-> sent[c][i].query, page |-> sent[c][i].page]

\* C21: the first request of a getSeriesImages invocation carries, for a
\* non-null keyType, the parameters of the caller's query (its page included)
\* together with keyType, and for a null keyType the caller's query unchanged;
\* the first request of a getSeasonPosters invocation carries keyType=season and
\* subKey=<season>.
C21_ImagesQueryMerged ==
  \A c \in Calls :
    Len(sent[c]) >= 1 =>
      LET g == called[c] IN
        /\ (g.method = "getSeriesImages" /\ g.keyType # Null) =>
              SentQuery(c, 1) =
                [parameters |-> UrlQuery(Assign(g.options.query, "keyType", g.keyType)),
                 page |-> g.options.page]
        /\ (g.method = "getSeriesImages" /\ g.keyType = Null) =>
              SentQuery(c, 1) =
                [parameters |-> UrlQuery(g.options.query), page |-> g.options.page]
        /\ g.method = "getSeasonPosters" =>
              SentQuery(c, 1) =
                [parameters |-> [k \in {"keyType", "subKey"} |->
                                   IF k = "keyType" THEN "season" ELSE g.season[2]],
                 page |-> 0]

\* C21 without its first case: a null keyType, and getSeasonPosters.
C21_NullKeyTypeUnchanged ==
  \A c \in Calls :
    Len(sent[c]) >= 1 =>
      LET g == called[c] IN
        /\ (g.method = "getSeriesImages" /\ g.keyType = Null) =>
              SentQuery(c, 1) =
                [parameters |-> UrlQuery(g.options.query), page |-> g.options.page]
        /\ g.method = "getSeasonPosters" =>
              SentQuery(c, 1) =
                [parameters |-> [k \in {"keyType", "subKey"} |->
                                   IF k = "keyType" THEN "season" ELSE g.season[2]],
                 page |-> 0]

\* getSeriesImages(1, 'fanart', {query: {subKey: 'graphical', page: 2}}) has gone
\* out with the query keyType=fanart alone.
C21_Witness ==
  \E c \in Calls :
    /\ called[c].method = "getSeriesImages"
    /\ called[c].keyType = Str("fanart")
    /\ called[c].options.query = [k \in {"subKey"} |-> Str("graphical")]
    /\ called[c].options.page = 2
    /\ Len(sent[c]) >= 1
    /\ SentQuery(c, 1) = [parameters |-> [k \in {"keyType"} |-> "fanart"], page |-> 0]

\* C22: a construction with a missing or empty key has thrown 'API key is
\* required' and left no client, so nothing was ever invoked and no login
\* started; a client that exists holds a non-empty key; every login was called
\* with that key; the step of the construction starts no login, and login has
\* not been called while no invocation has been made.
C22_KeyRequired ==
  /\ [](/\ construction.apiKey \in {Undefined, ""} => construction.state # "made"
        /\ (construction.state = "new" \/ construction.state = "thrown") =>
              /\ client = NoClient
              /\ loginCalls = 0 /\ tokenPromise = Unset
              /\ \A c \in Calls : ~Started(c)
        /\ construction.state = "thrown" =>
              /\ construction.apiKey \in {Undefined, ""}
              /\ construction.message = "API key is required"
        /\ construction.state = "made" =>
              /\ client # NoClient
              /\ construction.apiKey \notin {Undefined, ""}
        /\ Len(credentials) = loginCalls
        /\ \A i \in 1..Len(credentials) :
              credentials[i] = construction.apiKey /\ credentials[i] \notin {Undefined, ""}
        /\ (\A c \in Calls : ~Started(c)) => (loginCalls = 0 /\ tokenPromise = Unset))
  /\ [][construction' # construction
          => (loginCalls' = loginCalls /\ tokenPromise' = tokenPromise
              /\ credentials' = credentials)]_vars

\* new TheTVDB('') has thrown: there is no client and no login.
C22_Witness ==
  /\ construction = Thrown("")
  /\ client = NoClient
  /\ loginCalls = 0
====
